---- MODULE Spec2Model ----
(***************************************************************************)
(* sharkmon: a gateway that polls a Shark 100S power meter over Modbus     *)
(* TCP, smooths the three channels with an EWMA and serves the latest      *)
(* reading.  The model follows src/src/main.rs: the acquisition task       *)
(* (device_update / device_update_connect_loop / update_pe), the shared    *)
(* Mutex<PowerEwma>, the /power handler as concurrent readers, and main.   *)
(*                                                                         *)
(* f32 values are modelled to the bit: a value is the record               *)
(* [s, e, m] of an IEEE-754 binary32 (sign, biased exponent, fraction),    *)
(* and *, + and - round to nearest, ties to even, as the hardware does.    *)
(* The inputs are finite normal numbers or zero, so NaN, infinities and    *)
(* subnormals never arise within the bounds.                               *)
(***************************************************************************)
EXTENDS Integers, Sequences, FiniteSets, TLC

(***************************************************************************)
(* IEEE-754 binary32                                                       *)
(***************************************************************************)
TwoP23 == 2 ^ 23
TwoP24 == 2 ^ 24
TwoP12 == 2 ^ 12

\* f32::from_bits of the 32-bit pattern whose high half is hi and low half lo
F32FromWords(hi, lo) ==
    [s |-> hi \div 32768, e |-> (hi \div 128) % 256, m |-> (hi % 128) * 65536 + lo]

F32Zero(s) == [s |-> s, e |-> 0, m |-> 0]

F32IsZero(x) == x.e = 0 /\ x.m = 0

\* the 24-bit significand of a normal number (hidden bit restored)
Sig(x) == IF x.e = 0 THEN 0 ELSE TwoP23 + x.m

\* sig in [2^23, 2^24) with exponent e, and what was cut off below it:
\* rem out of 2*half.  Round to nearest, ties to even.
RoundPack(s, e, sig, rem, half) ==
    LET up == rem > half \/ (rem = half /\ sig % 2 = 1)
        r  == IF up THEN sig + 1 ELSE sig
    IN  IF r = TwoP24
        THEN [s |-> s, e |-> e + 1, m |-> 0]
        ELSE [s |-> s, e |-> e, m |-> r - TwoP23]

\* the finite binary32 values
F32 == [s : {0, 1}, e : 0 .. 255, m : 0 .. (TwoP23 - 1)]

\* a * b, as a function so that the operands are evaluated once
F32MulFn[a \in F32, b \in F32] ==
    LET s == (a.s + b.s) % 2
    IN  IF F32IsZero(a) \/ F32IsZero(b) THEN F32Zero(s)
        ELSE
        LET x   == Sig(a)
            y   == Sig(b)
            x1  == x \div TwoP12
            x0  == x % TwoP12
            y1  == y \div TwoP12
            y0  == y % TwoP12
            mid == x1 * y0 + x0 * y1
            low == x0 * y0 + (mid % TwoP12) * TwoP12
            lo  == low % TwoP24
            hi  == x1 * y1 + mid \div TwoP12 + low \div TwoP24
            e   == a.e + b.e - 127
        IN  IF hi >= TwoP23
            THEN RoundPack(s, e + 1, hi, lo, TwoP23)
            ELSE RoundPack(s, e, 2 * hi + lo \div TwoP23, lo % TwoP23, TwoP23 \div 2)

F32Mul(a, b) == F32MulFn[a, b]

\* x shifted right by d bits, any bit shifted out kept as a sticky low bit
ShiftRightSticky(x, d) ==
    IF d = 0 THEN x
    ELSE IF d >= 27 THEN (IF x = 0 THEN 0 ELSE 1)
    ELSE LET q == x \div (2 ^ d)
         IN  IF x % (2 ^ d) = 0 \/ q % 2 = 1 THEN q ELSE q + 1

\* the magnitude of a is at least the magnitude of b
MagGeq(a, b) == a.e > b.e \/ (a.e = b.e /\ a.m >= b.m)

RECURSIVE NormalizeLeft(_, _)
\* <<e, d>> with d shifted left until it has 27 bits
NormalizeLeft(e, d) ==
    IF d >= 8 * TwoP23 THEN <<e, d>> ELSE NormalizeLeft(e - 1, 2 * d)

\* |a| + |b| with sign s, |a| >= |b|
MagAdd(s, a, b) ==
    LET sum == 8 * Sig(a) + ShiftRightSticky(8 * Sig(b), a.e - b.e)
    IN  IF sum >= 8 * TwoP24
        THEN LET t == ShiftRightSticky(sum, 1)
             IN  RoundPack(s, a.e + 1, t \div 8, t % 8, 4)
        ELSE RoundPack(s, a.e, sum \div 8, sum % 8, 4)

\* |a| - |b| with sign s, |a| >= |b|
MagSub(s, a, b) ==
    LET dif == 8 * Sig(a) - ShiftRightSticky(8 * Sig(b), a.e - b.e)
    IN  IF dif = 0 THEN F32Zero(0)
        ELSE LET n == NormalizeLeft(a.e, dif)
             IN  RoundPack(s, n[1], n[2] \div 8, n[2] % 8, 4)

\* a + b, as a function so that the operands are evaluated once
F32AddFn[a \in F32, b \in F32] ==
    IF F32IsZero(a) /\ F32IsZero(b) THEN F32Zero(IF a.s = 1 /\ b.s = 1 THEN 1 ELSE 0)
    ELSE IF F32IsZero(a) THEN b
    ELSE IF F32IsZero(b) THEN a
    ELSE LET big   == IF MagGeq(a, b) THEN a ELSE b
             small == IF MagGeq(a, b) THEN b ELSE a
         IN  IF a.s = b.s THEN MagAdd(big.s, big, small)
                          ELSE MagSub(big.s, big, small)

F32Add(a, b) == F32AddFn[a, b]

\* a - b
F32Sub(a, b) == F32AddFn[a, [b EXCEPT !.s = 1 - b.s]]

(***************************************************************************)
(* Program constants                                                       *)
(***************************************************************************)
\* const EWMA_PARAM: f32 = 0.8  (bit pattern 0x3F4CCCCD)
EWMA_PARAM == F32FromWords(16204, 52429)

\* the literals 1.0 and 0.0
F32One == F32FromWords(16256, 0)
F32PosZero == F32Zero(0)

REG_WATTS == 899
REG_VOLTS == 1005
REG_FREQ == 1025

\* Slave::from(1)
SLAVE_ID == 1

\* Duration::from_secs(1) of the pacing interval, Duration::from_secs(2) of the backoff
INTERVAL_SECS == 1
BACKOFF_SECS == 2

(***************************************************************************)
(* Bounds of the model                                                     *)
(***************************************************************************)
\* clock resolution: time advances in steps of 1/TicksPerSec second
TicksPerSec == 1
\* a connect attempt completes within MaxConnLat clock steps, a register read within MaxReadLat
MaxConnLat == 1
MaxReadLat == 1
\* poll cycles started and faults injected in one run
MaxCycles == 2
MaxFaults == 2
\* concurrent /power requests
NumReaders == 1

Period == INTERVAL_SECS * TicksPerSec
Backoff == BACKOFF_SECS * TicksPerSec
Readers == 1 .. NumReaders

\* What the meter may answer for a register: two 16-bit words.
\* watts 100.0 or 200.0, volts 240.0, frequency 60.0 or 59.98
RegisterWords(loc) ==
    IF loc = REG_WATTS THEN {<<17096, 0>>, <<17224, 0>>}
    ELSE IF loc = REG_VOLTS THEN {<<17264, 0>>}
    ELSE {<<17008, 0>>, <<17007, 60293>>}

\* the value of a register that does not change: 100.0 W, 240.0 V, 60.0 Hz
SteadyWords(loc) ==
    IF loc = REG_WATTS THEN <<17096, 0>>
    ELSE IF loc = REG_VOLTS THEN <<17264, 0>>
    ELSE <<17008, 0>>

(***************************************************************************)
(* Pure functions of the program                                           *)
(***************************************************************************)
\* A u32 is kept as its two 16-bit halves <<high, low>>: x as u32 of a u16, the
\* shift by 16 within 32 bits (the old high half falls off), and the bitwise or.
Word16 == 2 ^ 16

AsU32(x) == <<0, x % Word16>>

Shl16(u) == <<u[2], 0>>

\* the bitwise or of two numbers below 2^n
RECURSIVE BitOr(_, _, _)
BitOr(x, y, n) ==
    IF n = 0 THEN 0
    ELSE (IF x % 2 = 1 \/ y % 2 = 1 THEN 1 ELSE 0) + 2 * BitOr(x \div 2, y \div 2, n - 1)

BitOr32(u, v) == <<BitOr(u[1], v[1], 16), BitOr(u[2], v[2], 16)>>

F32FromBits(u) == F32FromWords(u[1], u[2])

\* the bit pattern of a value, as the two halves
F32ToBits(x) == <<x.s * 32768 + x.e * 128 + x.m \div Word16, x.m % Word16>>

\* the words taken in the other order: a[1] the high half
beu16x2_to_f32_le(a) == F32FromBits(BitOr32(Shl16(AsU32(a[2])), AsU32(a[1])))

\* line 28: f32::from_bits((a[0] as u32) << 16 | (a[1] as u32))
beu16x2_to_f32(a) == F32FromBits(BitOr32(Shl16(AsU32(a[1])), AsU32(a[2])))

\* the two weights exchanged
ewmaSwapped(a, b, w) == F32Add(F32Mul(a, F32Sub(F32One, w)), F32Mul(b, w))

ewma(a, b, w) == F32Add(F32Mul(a, w), F32Mul(b, F32Sub(F32One, w)))

\* PowerEwma::default()
PowerEwmaNew ==
    [initialized |-> FALSE, watts |-> F32PosZero, volts |-> F32PosZero,
     frequency |-> F32PosZero]

\* no seed branch: the first sample is smoothed into the default 0.0
UpdateChannelSmoothOnly(seed, old, incoming) == ewma(old, incoming, EWMA_PARAM)

\* one channel assignment of PowerEwma::update: the seed branch stores the
\* incoming value, the other branch smooths it into the old one
UpdateChannel(seed, old, incoming) ==
    IF seed THEN incoming ELSE ewma(old, incoming, EWMA_PARAM)

Zeros == <<F32PosZero, F32PosZero, F32PosZero>>

(***************************************************************************)
(* State                                                                   *)
(***************************************************************************)
VARIABLES
    env,       \* the surroundings: [timed, varied, clients], see Environments
    opt,       \* Opt: [no_web, verbose, parsable]; parsable: meter parses as a socket address
    serving,   \* the web server of main is running
    alive,     \* the process has not exited
    pe,        \* the PowerEwma behind the mutex
    mutex,     \* [held, by]: by = 0 is the acquisition task, r > 0 the request r
    pc,        \* where the acquisition task is
    verbose,   \* the verbose argument of device_update
    ctx,       \* the Modbus context: [open, slave]
    interval,  \* the tokio interval: [armed, due], due = time from now to its next deadline
    timer,     \* time left of the backoff sleep
    io,        \* [loc, regs, elapsed]: register awaited, values read so far, time waited
    call,      \* the PowerEwma::update call in progress: [site, args, seed]
    out,       \* what was last written to stdout: <<snapshot>>, <<>> before the first
    rd,        \* the /power requests: [pc, tmp, resp, ref]; resp = <<the answer>>
    obs        \* what an observer has recorded of the run (history, not program state)

vars == <<env, opt, serving, alive, pe, mutex, pc, verbose, ctx, interval, timer,
          io, call, out, rd, obs>>

Unlocked == [held |-> FALSE, by |-> 0]
HeldBy(who) == [held |-> TRUE, by |-> who]
HeldByLoop == HeldBy(0)
NoCtx == [open |-> FALSE, slave |-> 0]
NoIo == [loc |-> 0, regs |-> <<>>, elapsed |-> 0]
NoInterval == [armed |-> FALSE, due |-> 0]
NoCall == [site |-> "none", args |-> Zeros, seed |-> FALSE]

\* The surroundings a run is explored in.  Each is one the program can meet:
\*   timed:   the connect and the register reads take time (else they answer at once)
\*   varied:  the meter's registers change between reads (else they hold one value)
\*   clients: how many /power requests can be in flight
Environments ==
    { [timed |-> TRUE, varied |-> FALSE, clients |-> 0],
      [timed |-> FALSE, varied |-> TRUE, clients |-> 0],
      [timed |-> FALSE, varied |-> FALSE, clients |-> 1],
      [timed |-> FALSE, varied |-> FALSE, clients |-> NumReaders] }

\* what the observer has recorded when the program starts: nothing
ObsInit ==
    [hist |-> <<>>,          \* the update calls completed: <<site, args>>
     committed |-> {PowerEwmaNew}, \* every value a completed update left
     last |-> PowerEwmaNew,  \* the value the latest completed update left
     connFails |-> 0, readFails |-> 0, connOks |-> 0,
     cycles |-> 0,           \* poll cycles started
     polled |-> 0,           \* poll cycles whose three reads all succeeded
     pre |-> PowerEwmaNew,   \* the reading when the latest update call began
     reads |-> <<>>,         \* registers requested in the latest poll cycle
     words |-> <<>>,         \* the words answered to the reads of the cycle in progress
     nreads |-> 0,           \* register reads requested in all
     backoffs |-> 0,         \* backoff sleeps completed
     slept |-> 0,            \* time spent in backoff sleeps
     fault |-> "none",       \* the fault being handled: "connect" or "read"
     atFault |-> PowerEwmaNew, \* the reading when that fault happened
     nth |-> 0,              \* poll cycles started on this connection
     clock |-> 0,            \* time since the latest cycle started
     took |-> 0,             \* time the latest cycle took from its start to its update
     prevTook |-> 0,         \* the same of the cycle before the latest
     gap |-> 0,              \* time between the starts of these two cycles
     connTook |-> 0,         \* time the connect took
     sessions |-> 0]         \* transport sessions to the meter opened and not yet dropped

Init ==
    /\ env \in Environments
    /\ opt \in [no_web : BOOLEAN, verbose : BOOLEAN, parsable : BOOLEAN]
    /\ serving = FALSE
    /\ alive = TRUE
    /\ pe = PowerEwmaNew
    /\ mutex = Unlocked
    /\ pc = "main"
    /\ verbose = FALSE
    /\ ctx = NoCtx
    /\ interval = NoInterval
    /\ timer = 0
    /\ io = NoIo
    /\ call = NoCall
    /\ out = <<>>
    /\ rd = [r \in Readers |-> [pc |-> "idle", tmp |-> <<>>, resp |-> <<>>, ref |-> <<>>]]
    /\ obs = ObsInit         \* time the connect took

(***************************************************************************)
(* main                                                                    *)
(***************************************************************************)
\* lines 136-141: no_web runs device_update in main with verbose = true; otherwise it
\* is spawned as a task and main goes on to serve /power
Main ==
    /\ alive /\ pc = "main"
    /\ pc' = "du_loop"
    /\ verbose' = (opt.no_web \/ opt.verbose)
    /\ serving' = ~opt.no_web
    /\ UNCHANGED <<env, opt, alive, pe, mutex, ctx, interval, timer, io, call, out, rd, obs>>

\* A panic of the acquisition task: in main (no_web) it ends the process; in a
\* spawned task tokio catches it, the task ends and the server goes on.
AliveAfterPanic == ~opt.no_web

(***************************************************************************)
(* The mutex                                                               *)
(***************************************************************************)
\* a lock that excludes nobody
CanLockAlways == TRUE

\* Mutex::lock returns only when nobody holds the lock
CanLock == ~mutex.held

(***************************************************************************)
(* device_update and device_update_connect_loop                            *)
(***************************************************************************)
\* the fault counters stay within the bound
MayFault == obs.connFails + obs.readFails < MaxFaults

\* the first read of a poll cycle
StartCycle == [loc |-> REG_WATTS, regs |-> <<>>, elapsed |-> 0]

\* lines 88-89 and 103-107: enter the connect loop; the interval's first deadline is
\* now; an unparsable meter address panics in unwrap()
DeviceUpdateEnter ==
    /\ alive /\ pc = "du_loop"
    /\ IF opt.parsable
       THEN /\ pc' = "connect"
            /\ interval' = [armed |-> TRUE, due |-> 0]
            /\ io' = NoIo
            /\ alive' = alive
       ELSE /\ pc' = "panicked"
            /\ interval' = NoInterval
            /\ io' = NoIo
            /\ alive' = AliveAfterPanic
    /\ UNCHANGED <<env, opt, serving, pe, mutex, verbose, ctx, timer, call, out, rd, obs>>

\* lines 107-108, 111, 76: the connect succeeded; set the slave and request the watts
ConnectOk ==
    /\ alive /\ pc = "connect"
    /\ obs.cycles < MaxCycles
    /\ ctx' = [open |-> TRUE, slave |-> SLAVE_ID]
    /\ pc' = "read"
    /\ io' = StartCycle
    /\ obs' = [obs EXCEPT !.connOks = @ + 1, !.cycles = @ + 1, !.nth = 1, !.clock = 0,
                          !.gap = 0, !.took = 0, !.prevTook = 0, !.connTook = io.elapsed,
                          !.sessions = @ + 1,
                          !.reads = <<REG_WATTS>>, !.nreads = @ + 1]
    /\ UNCHANGED <<env, opt, serving, alive, pe, mutex, verbose, interval, timer, call, out, rd>>

\* line 107 `?`, lines 89-92: the connect failed; back in device_update
ConnectFail ==
    /\ alive /\ pc = "connect"
    /\ MayFault
    /\ pc' = "lock"
    /\ call' = [site |-> "du", args |-> Zeros, seed |-> FALSE]
    /\ interval' = NoInterval
    /\ io' = NoIo
    /\ obs' = [obs EXCEPT !.connFails = @ + 1, !.fault = "connect", !.atFault = pe]
    /\ UNCHANGED <<env, opt, serving, alive, pe, mutex, verbose, ctx, timer, out, rd>>

\* the frequency is read before the volts
NextRegFreqFirst(loc) ==
    IF loc = REG_WATTS THEN REG_FREQ ELSE IF loc = REG_FREQ THEN REG_VOLTS ELSE 0

\* the register read after loc in update_pe (lines 76-78), 0 after the last
NextReg(loc) ==
    IF loc = REG_WATTS THEN REG_VOLTS ELSE IF loc = REG_VOLTS THEN REG_FREQ ELSE 0

\* lines 63-66, 76-79: a read answered with two words
ReadOk(data) ==
    /\ alive /\ pc = "read"
    /\ LET regs == Append(io.regs, beu16x2_to_f32(data))
           nxt  == NextReg(io.loc)
       IN  IF nxt # 0
           THEN /\ io' = [loc |-> nxt, regs |-> regs, elapsed |-> 0]
                /\ obs' = [obs EXCEPT !.reads = Append(@, nxt), !.nreads = @ + 1,
                                      !.words = Append(@, data)]
                /\ UNCHANGED <<pc, call>>
           ELSE /\ io' = NoIo
                /\ pc' = "lock"
                /\ call' = [site |-> "poll", args |-> regs, seed |-> FALSE]
                /\ obs' = [obs EXCEPT !.polled = @ + 1, !.took = obs.clock,
                                      !.words = Append(@, data)]
    /\ UNCHANGED <<env, opt, serving, alive, pe, mutex, verbose, ctx, interval, timer, out, rd>>

\* lines 64 `?`, 76-78 `?`, 120-122: a read failed
ReadFail ==
    /\ alive /\ pc = "read"
    /\ MayFault
    /\ io' = NoIo
    /\ pc' = "lock"
    /\ call' = [site |-> "err", args |-> Zeros, seed |-> FALSE]
    /\ obs' = [obs EXCEPT !.readFails = @ + 1, !.fault = "read", !.words = <<>>,
                          !.atFault = pe]
    /\ UNCHANGED <<env, opt, serving, alive, pe, mutex, verbose, ctx, interval, timer, out, rd>>

(***************************************************************************)
(* pe_mutex.lock().unwrap().update(watts, volts, frequency)                *)
(* called at line 79 (site "poll"), line 122 ("err") and line 92 ("du")    *)
(***************************************************************************)
\* on the fault path the reading is replaced by a fresh one before the update
LockResetOnFault ==
    /\ alive /\ pc = "lock"
    /\ CanLock
    /\ mutex' = HeldByLoop
    /\ pe' = IF call.site = "poll" THEN pe ELSE PowerEwmaNew
    /\ call' = [call EXCEPT !.seed = ~pe'.initialized]
    /\ pc' = "u_watts"
    /\ obs' = [obs EXCEPT !.pre = pe']
    /\ UNCHANGED <<env, opt, serving, alive, verbose, ctx, interval, timer, io, out, rd>>

\* Mutex::lock, then line 50: which branch of update is taken
Lock ==
    /\ alive /\ pc = "lock"
    /\ CanLock
    /\ mutex' = HeldByLoop
    /\ call' = [call EXCEPT !.seed = ~pe.initialized]
    /\ pc' = "u_watts"
    /\ obs' = [obs EXCEPT !.pre = pe]
    /\ UNCHANGED <<env, opt, serving, alive, pe, verbose, ctx, interval, timer, io, out, rd>>

\* line 51 or 56
UpdateWatts ==
    /\ alive /\ pc = "u_watts"
    /\ pe' = [pe EXCEPT !.watts = UpdateChannel(call.seed, @, call.args[1])]
    /\ pc' = "u_volts"
    /\ UNCHANGED <<env, opt, serving, alive, mutex, verbose, ctx, interval, timer, io, call, out,
                   rd, obs>>

\* line 52 or 57
UpdateVolts ==
    /\ alive /\ pc = "u_volts"
    /\ pe' = [pe EXCEPT !.volts = UpdateChannel(call.seed, @, call.args[2])]
    /\ pc' = "u_frequency"
    /\ UNCHANGED <<env, opt, serving, alive, mutex, verbose, ctx, interval, timer, io, call, out,
                   rd, obs>>

\* line 53 or 58
UpdateFrequency ==
    /\ alive /\ pc = "u_frequency"
    /\ pe' = [pe EXCEPT !.frequency = UpdateChannel(call.seed, @, call.args[3])]
    /\ pc' = IF call.seed THEN "u_flag" ELSE "unlock"
    /\ UNCHANGED <<env, opt, serving, alive, mutex, verbose, ctx, interval, timer, io, call, out,
                   rd, obs>>

\* line 54
UpdateFlag ==
    /\ alive /\ pc = "u_flag"
    /\ pe' = [pe EXCEPT !.initialized = TRUE]
    /\ pc' = "unlock"
    /\ UNCHANGED <<env, opt, serving, alive, mutex, verbose, ctx, interval, timer, io, call, out,
                   rd, obs>>

\* a backoff that grows with every fault
BackoffTicksGrowing == Backoff * (obs.backoffs + 1)

\* a backoff as long as the pacing interval
BackoffTicksShort == Period

\* the length of the backoff sleep, line 93
BackoffTicks == Backoff

\* device_update returns after the first backoff
AfterBackoffReturn == "returned"

\* where the task goes when the backoff sleep is over: line 94 closes the loop
AfterBackoff == "du_loop"

\* the guard of the update statement lives on after the statement
GuardAfterUpdateKept == HeldByLoop

\* lines 79, 92, 122: the MutexGuard is a temporary of the statement
\* pe_mutex.lock().unwrap().update(..) and is dropped at its end
GuardAfterUpdate == Unlocked

\* the context is leaked when the connect loop is left: its session stays open
DroppedNever(n) == n

\* line 123 (and a panic unwinding): ctx goes out of scope when the connect loop is
\* left, which closes its session; n sessions were open
Dropped(n) == n - 1

\* The guard is dropped at the end of the statement and the caller goes on:
\*   line 79  -> Ok(()), lines 112-113: verbose or straight to the tick
\*   line 122 -> line 123 returns Err, dropping ctx and interval; lines 89-92
\*   line 92  -> line 93, the backoff sleep
Unlock ==
    /\ alive /\ pc = "unlock"
    /\ mutex' = GuardAfterUpdate
    /\ obs' = [obs EXCEPT !.hist = Append(@, <<call.site, call.args>>),
                          !.committed = @ \cup {pe},
                          !.last = pe,
                          !.words = <<>>,
                          !.sessions = IF call.site = "err" THEN Dropped(@) ELSE @]
    /\ CASE call.site = "poll" ->
              /\ pc' = IF verbose THEN "v_lock" ELSE "tick"
              /\ call' = NoCall
              /\ UNCHANGED <<ctx, interval, timer>>
         [] call.site = "err" ->
              /\ pc' = "lock"
              /\ call' = [site |-> "du", args |-> Zeros, seed |-> FALSE]
              /\ ctx' = NoCtx
              /\ interval' = NoInterval
              /\ timer' = timer
         [] OTHER ->
              /\ pc' = "sleep"
              /\ call' = NoCall
              /\ timer' = BackoffTicks
              /\ UNCHANGED <<ctx, interval>>
    /\ UNCHANGED <<env, opt, serving, alive, pe, verbose, io, out, rd>>

\* line 114: lock for the verbose snapshot
VerboseLock ==
    /\ alive /\ pc = "v_lock"
    /\ CanLock
    /\ mutex' = HeldByLoop
    /\ pc' = "v_clone"
    /\ UNCHANGED <<env, opt, serving, alive, pe, verbose, ctx, interval, timer, io, call, out, rd,
                   obs>>

\* the guard is kept in a variable and lives on across the write to stdout
VerboseCloneKeepsGuard ==
    /\ alive /\ pc = "v_clone"
    /\ call' = [site |-> "emit", args |-> <<pe.watts, pe.volts, pe.frequency>>,
                seed |-> FALSE]
    /\ pc' = "v_write"
    /\ UNCHANGED <<env, opt, serving, alive, pe, mutex, verbose, ctx, interval, timer, io, out,
                   rd, obs>>

\* line 114: clone, and the guard is dropped
VerboseClone ==
    /\ alive /\ pc = "v_clone"
    /\ call' = [site |-> "emit", args |-> <<pe.watts, pe.volts, pe.frequency>>,
                seed |-> FALSE]
    /\ mutex' = Unlocked
    /\ pc' = "v_write"
    /\ UNCHANGED <<env, opt, serving, alive, pe, verbose, ctx, interval, timer, io, out, rd, obs>>

\* lines 115-117: the snapshot (initialized is not serialized) is written to stdout
VerboseWriteOk ==
    /\ alive /\ pc = "v_write"
    /\ out' = <<[watts |-> call.args[1], volts |-> call.args[2],
                 frequency |-> call.args[3]]>>
    /\ call' = NoCall
    /\ pc' = "tick"
    /\ UNCHANGED <<env, opt, serving, alive, pe, mutex, verbose, ctx, interval, timer, io, rd, obs>>

\* line 117: expect() panics when stdout cannot be written
VerboseWriteFail ==
    /\ alive /\ pc = "v_write"
    /\ pc' = "panicked"
    /\ call' = NoCall
    /\ ctx' = NoCtx
    /\ interval' = NoInterval
    /\ alive' = AliveAfterPanic
    /\ obs' = [obs EXCEPT !.sessions = Dropped(@)]
    /\ UNCHANGED <<env, opt, serving, pe, mutex, verbose, timer, io, out, rd>>

\* line 126, then lines 111, 76: the tick is due; the interval's deadline moves on by
\* one period from the old deadline and the next cycle requests the watts
Tick ==
    /\ alive /\ pc = "tick"
    /\ interval.armed /\ interval.due <= 0
    /\ obs.cycles < MaxCycles
    /\ interval' = [interval EXCEPT !.due = @ + Period]
    /\ pc' = "read"
    /\ io' = StartCycle
    /\ obs' = [obs EXCEPT !.cycles = @ + 1, !.nth = @ + 1, !.gap = obs.clock, !.clock = 0,
                          !.prevTook = obs.took,
                          !.reads = <<REG_WATTS>>, !.nreads = @ + 1]
    /\ UNCHANGED <<env, opt, serving, alive, pe, mutex, verbose, ctx, timer, call, out, rd>>

\* line 93 is over, line 94
Wake ==
    /\ alive /\ pc = "sleep"
    /\ timer = 0
    /\ pc' = AfterBackoff
    /\ obs' = [obs EXCEPT !.backoffs = @ + 1, !.fault = "none", !.atFault = PowerEwmaNew]
    /\ UNCHANGED <<env, opt, serving, alive, pe, mutex, verbose, ctx, interval, timer, io, call,
                   out, rd>>

\* Time passes by one clock step while the task is suspended in an await:
\* the connect, a register read, the interval's tick or the backoff sleep.
Advance ==
    /\ alive
    /\ \/ pc = "connect" /\ env.timed /\ io.elapsed < MaxConnLat
       \/ pc = "read" /\ env.timed /\ io.elapsed < MaxReadLat
       \/ pc = "tick" /\ interval.due > 0
       \/ pc = "sleep" /\ timer > 0
    /\ io' = IF pc \in {"connect", "read"} THEN [io EXCEPT !.elapsed = @ + 1] ELSE io
    /\ interval' = IF interval.armed THEN [interval EXCEPT !.due = @ - 1] ELSE interval
    /\ timer' = IF pc = "sleep" THEN timer - 1 ELSE timer
    /\ obs' = [obs EXCEPT !.clock = IF pc \in {"read", "tick"} THEN @ + 1 ELSE @,
                          !.slept = IF pc = "sleep" THEN @ + 1 ELSE @]
    /\ UNCHANGED <<env, opt, serving, alive, pe, mutex, pc, verbose, ctx, call, out, rd>>

(***************************************************************************)
(* power: the /power handler, lines 83-85                                  *)
(***************************************************************************)
\* a request arrives
Request(r) ==
    /\ alive /\ serving
    /\ r <= env.clients
    /\ rd[r].pc = "idle"
    /\ rd' = [rd EXCEPT ![r].pc = "lock"]
    /\ UNCHANGED <<env, opt, serving, alive, pe, mutex, pc, verbose, ctx, interval, timer, io,
                   call, out, obs>>

\* data.lock().unwrap()
ReaderLock(r) ==
    /\ alive /\ rd[r].pc = "lock"
    /\ CanLock
    /\ mutex' = HeldBy(r)
    /\ rd' = [rd EXCEPT ![r].pc = "c_initialized", ![r].tmp = <<>>]
    /\ UNCHANGED <<env, opt, serving, alive, pe, pc, verbose, ctx, interval, timer, io, call, out,
                   obs>>

\* .clone(): the derived Clone copies the fields in declaration order
ReaderCopy(r) ==
    /\ alive /\ rd[r].pc \in {"c_initialized", "c_watts", "c_volts"}
    /\ rd' = [rd EXCEPT
                ![r].tmp = Append(@, CASE rd[r].pc = "c_initialized" -> pe.initialized
                                       [] rd[r].pc = "c_watts" -> pe.watts
                                       [] OTHER -> pe.volts),
                ![r].pc = CASE rd[r].pc = "c_initialized" -> "c_watts"
                            [] rd[r].pc = "c_watts" -> "c_volts"
                            [] OTHER -> "c_frequency"]
    /\ UNCHANGED <<env, opt, serving, alive, pe, mutex, pc, verbose, ctx, interval, timer, io,
                   call, out, obs>>

\* the handler takes the reading out of the mutex (std::mem::take) and leaves the
\* default behind
ReaderReturnTakes(r) ==
    /\ alive /\ rd[r].pc = "c_frequency"
    /\ mutex' = Unlocked
    /\ pe' = PowerEwmaNew
    /\ rd' = [rd EXCEPT ![r].pc = "done",
                        ![r].tmp = <<>>,
                        ![r].resp = <<[initialized |-> rd[r].tmp[1], watts |-> rd[r].tmp[2],
                                       volts |-> rd[r].tmp[3], frequency |-> pe.frequency]>>,
                        ![r].ref = <<obs.last>>]
    /\ UNCHANGED <<env, opt, serving, alive, pc, verbose, ctx, interval, timer, io, call, out,
                   obs>>

\* the last field is copied, the guard is dropped and Json(..) is returned
ReaderReturn(r) ==
    /\ alive /\ rd[r].pc = "c_frequency"
    /\ mutex' = Unlocked
    /\ rd' = [rd EXCEPT ![r].pc = "done",
                        ![r].tmp = <<>>,
                        ![r].resp = <<[initialized |-> rd[r].tmp[1], watts |-> rd[r].tmp[2],
                                       volts |-> rd[r].tmp[3], frequency |-> pe.frequency]>>,
                        ![r].ref = <<obs.last>>]
    /\ UNCHANGED <<env, opt, serving, alive, pe, pc, verbose, ctx, interval, timer, io, call, out,
                   obs>>

\* the answer has gone out to the client and the request is over
Deliver(r) ==
    /\ alive /\ rd[r].pc = "done"
    /\ rd' = [rd EXCEPT ![r] = [pc |-> "idle", tmp |-> <<>>, resp |-> <<>>, ref |-> <<>>]]
    /\ UNCHANGED <<env, opt, serving, alive, pe, mutex, pc, verbose, ctx, interval, timer, io,
                   call, out, obs>>

(***************************************************************************)
(* Specification                                                           *)
(***************************************************************************)
Next ==
    \/ Main
    \/ DeviceUpdateEnter
    \/ ConnectOk
    \/ ConnectFail
    \/ \E loc \in {REG_WATTS, REG_VOLTS, REG_FREQ} :
          \E data \in RegisterWords(loc) :
             /\ io.loc = loc
             /\ env.varied \/ data = SteadyWords(loc)
             /\ ReadOk(data)
    \/ ReadFail
    \/ Lock
    \/ UpdateWatts
    \/ UpdateVolts
    \/ UpdateFrequency
    \/ UpdateFlag
    \/ Unlock
    \/ VerboseLock
    \/ VerboseClone
    \/ VerboseWriteOk
    \/ VerboseWriteFail
    \/ Tick
    \/ Wake
    \/ Advance
    \/ \E r \in Readers : Request(r)
    \/ \E r \in Readers : ReaderLock(r)
    \/ \E r \in Readers : ReaderCopy(r)
    \/ \E r \in Readers : ReaderReturn(r)
    \/ \E r \in Readers : Deliver(r)

Spec == Init /\ [][Next]_vars

\* The codec on its own.  The task has connected and read the watts and the volts;
\* the meter answers the read of the frequency register with any two words.
CodecWords == {0, 1, 127, 128, 255, 256, 17007, 32767, 32768, 49353, 65280, 65535}

CodecInit ==
    /\ env = [timed |-> FALSE, varied |-> TRUE, clients |-> 0]
    /\ opt \in {o \in [no_web : BOOLEAN, verbose : BOOLEAN, parsable : BOOLEAN] : o.parsable}
    /\ serving = ~opt.no_web
    /\ alive = TRUE
    /\ pe = PowerEwmaNew
    /\ mutex = Unlocked
    /\ pc = "read"
    /\ verbose = (opt.no_web \/ opt.verbose)
    /\ ctx = [open |-> TRUE, slave |-> SLAVE_ID]
    /\ interval = [armed |-> TRUE, due |-> 0]
    /\ timer = 0
    /\ io = [loc |-> REG_FREQ,
             regs |-> <<beu16x2_to_f32(SteadyWords(REG_WATTS)),
                        beu16x2_to_f32(SteadyWords(REG_VOLTS))>>,
             elapsed |-> 0]
    /\ call = NoCall
    /\ out = <<>>
    /\ rd = [r \in Readers |-> [pc |-> "idle", tmp |-> <<>>, resp |-> <<>>, ref |-> <<>>]]
    /\ obs = [ObsInit EXCEPT !.connOks = 1, !.cycles = 1, !.nth = 1, !.nreads = 3,
                             !.reads = <<REG_WATTS, REG_VOLTS, REG_FREQ>>,
                             !.sessions = 1,
                             !.words = <<SteadyWords(REG_WATTS), SteadyWords(REG_VOLTS)>>]

CodecNext == \E data \in CodecWords \X CodecWords : ReadOk(data)

CodecSpec == CodecInit /\ [][CodecNext]_vars

\* What the runtime guarantees: a task that can run does run, time passes, a sleep
\* or a tick that is due fires, and a thread or task waiting for the mutex gets it
\* when it is released again and again (critical sections are a handful of
\* assignments).  Nothing makes a connect or a read complete, a fault happen or a
\* request arrive.
TaskStep ==
    \/ Main
    \/ DeviceUpdateEnter
    \/ UpdateWatts
    \/ UpdateVolts
    \/ UpdateFrequency
    \/ UpdateFlag
    \/ Unlock
    \/ VerboseClone
    \/ VerboseWriteOk
    \/ Wake
    \/ Advance

Fairness ==
    /\ WF_vars(TaskStep)
    /\ SF_vars(Lock \/ VerboseLock)
    /\ \A r \in Readers : SF_vars(ReaderLock(r))
    /\ \A r \in Readers : WF_vars(ReaderCopy(r) \/ ReaderReturn(r) \/ Deliver(r))

\* the runs in which one /power request at a time contends with the task
LiveInit == Init /\ env.clients = 1

FairSpec == LiveInit /\ [][Next]_vars /\ Fairness

(***************************************************************************)
(* Properties                                                              *)
(***************************************************************************)
\* the update calls completed at a call site
RECURSIVE CountSite(_, _)
CountSite(h, site) ==
    IF h = <<>> THEN 0
    ELSE CountSite(Tail(h), site) + (IF Head(h)[1] = site THEN 1 ELSE 0)

ChannelsZero(p) == F32IsZero(p.watts) /\ F32IsZero(p.volts) /\ F32IsZero(p.frequency)

\* C1: once a poll cycle has succeeded, a failed register read leaves the channels at
\* (0.0, 0.0, 0.0) and initialized true when the task sleeps its backoff.
C1_FaultResetsToZero ==
    (pc = "sleep" /\ obs.fault = "read" /\ obs.polled >= 1)
        => (ChannelsZero(pe) /\ pe.initialized)

\* C2: as long as no poll cycle has had its three reads succeed, initialized is false,
\* however many faults went through the fault path.
C2_UninitializedBeforeFirstPoll ==
    obs.polled = 0 => ~pe.initialized

\* C3: every snapshot handed out, to a /power request or to stdout, is the whole
\* triple one completed update left (or the reading as constructed), never a mix.
C3_SnapshotsAreWhole ==
    /\ \A r \in Readers : rd[r].resp # <<>> => rd[r].resp[1] \in obs.committed
    /\ out # <<>> =>
          \E c \in obs.committed :
             out[1] = [watts |-> c.watts, volts |-> c.volts, frequency |-> c.frequency]

\* a request has taken its answer between two updates: the reading was polled
\* before, and the task is now in the middle of the next update, holding the lock
C3_Witness ==
    /\ pc = "u_volts" /\ mutex = HeldByLoop
    /\ \E r \in Readers :
          /\ rd[r].pc = "done" /\ rd[r].resp[1].initialized
          /\ ~ChannelsZero(rd[r].resp[1])
          /\ rd[r].resp[1].watts # pe.watts

\* C4: when the meter address cannot be parsed the process stops, in web mode and in
\* no-web mode alike.
C4_ParseFailureStopsProcess ==
    (pc = "panicked" /\ ~opt.parsable) => ~alive

\* C6: with a transport that fails to connect N times and then connects, the first
\* register read is requested after exactly N runs of the fault path, each followed
\* by one backoff of 2 seconds, and no read is requested before.
C6_ReconnectLoop ==
    /\ obs.connOks = 0 => obs.nreads = 0
    /\ (\/ obs.connOks = 0 /\ pc = "connect"
        \/ obs.connOks = 1 /\ obs.nreads = 1 /\ pc = "read")
          => /\ CountSite(obs.hist, "du") = obs.connFails
             /\ obs.backoffs = obs.connFails
             /\ obs.slept = obs.connFails * 2 * TicksPerSec

\* the first read is out after two failed connects
C6_Witness ==
    /\ obs.connOks = 1 /\ obs.nreads = 1 /\ pc = "read" /\ io.loc = REG_WATTS
    /\ obs.connFails = 2

\* C7: on one connection, two successive poll cycles start one interval of 1 second
\* apart, the first and the second included, whenever the earlier cycle took less
\* than the interval.
C7_CyclesOneIntervalApart ==
    (obs.nth >= 2 /\ obs.prevTook < Period) => obs.gap = Period

\* C8: update on a reading that is not initialized stores the sample as it is and
\* sets initialized.
C8_SeedStoresSample ==
    (pc = "unlock" /\ ~obs.pre.initialized)
        => pe = [initialized |-> TRUE, watts |-> call.args[1], volts |-> call.args[2],
                 frequency |-> call.args[3]]

\* the first poll (100.0, 240.0, 60.0) has just been stored in a fresh reading
C8_Witness ==
    /\ pc = "unlock" /\ ~obs.pre.initialized /\ obs.pre = PowerEwmaNew
    /\ call.site = "poll"
    /\ call.args = <<F32FromWords(17096, 0), F32FromWords(17264, 0), F32FromWords(17008, 0)>>
    /\ pe.initialized

\* old * 0.8 + incoming * (1.0 - 0.8) in f32
Blend(old, incoming) ==
    F32Add(F32Mul(old, EWMA_PARAM), F32Mul(incoming, F32Sub(F32One, EWMA_PARAM)))

\* the reading after the update calls of h, from the reading as constructed
RECURSIVE EwmaFold(_, _, _)
EwmaFold(h, i, acc) ==
    IF i > Len(h) THEN acc
    ELSE LET a == h[i][2]
         IN  EwmaFold(h, i + 1,
                 IF ~acc.initialized
                 THEN [initialized |-> TRUE, watts |-> a[1], volts |-> a[2],
                       frequency |-> a[3]]
                 ELSE [initialized |-> TRUE, watts |-> Blend(acc.watts, a[1]),
                       volts |-> Blend(acc.volts, a[2]),
                       frequency |-> Blend(acc.frequency, a[3])])

InUpdate == pc \in {"u_watts", "u_volts", "u_frequency", "u_flag", "unlock"}

\* C9: update on an initialized reading sets each channel to old*0.8 + incoming*0.2
\* (100.0 with 200.0 gives 120.0) and leaves initialized true; the reading is the
\* EWMA fold of the updates applied so far, seeded by the first.
C9_SmoothingFormula ==
    /\ (pc = "unlock" /\ obs.pre.initialized)
          => pe = [initialized |-> TRUE,
                   watts |-> Blend(obs.pre.watts, call.args[1]),
                   volts |-> Blend(obs.pre.volts, call.args[2]),
                   frequency |-> Blend(obs.pre.frequency, call.args[3])]
    /\ (/\ pc = "unlock" /\ obs.pre.initialized
        /\ obs.pre.watts = F32FromWords(17096, 0)
        /\ call.args[1] = F32FromWords(17224, 0))
          => pe.watts = F32FromWords(17136, 0)
    /\ pc = "lock" => pe = EwmaFold(obs.hist, 1, PowerEwmaNew)
    /\ pc = "unlock" =>
          pe = EwmaFold(Append(obs.hist, <<call.site, call.args>>), 1, PowerEwmaNew)

\* the reading (100.0, 240.0, 60.0) has just taken the sample (200.0, 240.0, 60.0)
C9_Witness ==
    /\ pc = "unlock" /\ obs.pre.initialized
    /\ obs.pre.watts = F32FromWords(17096, 0)
    /\ call.site = "poll" /\ call.args[1] = F32FromWords(17224, 0)
    /\ pe.watts = F32FromWords(17136, 0)

C10_SnapshotAlwaysReturns ==
    /\ [](\A r \in Readers : rd[r].resp # <<>> => rd[r].resp = rd[r].ref)
    /\ [](mutex = HeldByLoop => (InUpdate \/ pc = "v_clone"))
    /\ \A r \in Readers : (rd[r].pc = "lock") ~> (rd[r].pc = "done")

\* a request is answered with a polled reading while the task sleeps its backoff
C10_Witness ==
    /\ pc = "sleep" /\ timer > 0
    /\ \E r \in Readers :
          /\ rd[r].pc = "done"
          /\ rd[r].resp[1].initialized /\ ~ChannelsZero(rd[r].resp[1])

\* C11: the value decoded from the words (hi, lo) has the bit pattern hi * 2^16 + lo:
\* the first word is the high half and the second the low half, and the two halves
\* neither overlap nor carry into each other.
C11_Codec ==
    (pc = "lock" /\ call.site = "poll" /\ Len(obs.words) = 3) =>
        \A i \in 1 .. 3 :
           LET hi == obs.words[i][1]
               lo == obs.words[i][2]
           IN  /\ F32ToBits(call.args[i]) = <<hi, lo>>
               /\ call.args[i].s = hi \div 32768
               /\ call.args[i].e = (hi % 32768) \div 128
               /\ call.args[i].m = (hi % 128) * Word16 + lo

\* the words (0x8000, 0xFFFF), both with the top bit set, decoded
C11_Witness ==
    /\ pc = "lock" /\ call.site = "poll" /\ Len(obs.words) = 3
    /\ obs.words[3] = <<32768, 65535>>
    /\ call.args[3] = [s |-> 1, e |-> 0, m |-> 65535]

\* the reading p after one call update(0.0, 0.0, 0.0)
AfterZeroUpdate(p) == EwmaFold(<<<<"du", Zeros>>>>, 1, p)

\* C12: a failed connect and a failed register read take the same fault path: from
\* the same reading both leave the same reading when the backoff sleep begins (the
\* one a failed connect leaves), and both are followed by one backoff of 2 seconds.
C12_IdenticalFaultPath ==
    (pc = "sleep" /\ obs.fault # "none") =>
        /\ pe = AfterZeroUpdate(obs.atFault)
        /\ timer <= 2 * TicksPerSec
        /\ obs.backoffs + 1 = obs.connFails + obs.readFails

ReadOrder == <<REG_WATTS, REG_VOLTS, REG_FREQ>>

\* C13: in a poll cycle the registers are read in the order power (0x383), voltage
\* (0x03ED), frequency (0x0401); the sample update happens only after the three reads
\* of the cycle succeeded and takes exactly the three values read; after a failed
\* read no further read of the cycle is issued and the cycle feeds no sample.
C13_ReadOrderAndAtomicSample ==
    /\ Len(obs.reads) <= 3
    /\ \A i \in 1 .. Len(obs.reads) : obs.reads[i] = ReadOrder[i]
    /\ pc = "read" =>
          /\ io.loc = obs.reads[Len(obs.reads)]
          /\ Len(io.regs) = Len(obs.reads) - 1
          /\ Len(obs.words) = Len(io.regs)
          /\ \A i \in 1 .. Len(io.regs) : io.regs[i] = F32FromWords(obs.words[i][1], obs.words[i][2])
          /\ call.site # "poll"
    /\ call.site = "poll" =>
          /\ obs.reads = ReadOrder
          /\ Len(obs.words) = 3
          /\ call.args = [i \in 1 .. 3 |-> F32FromWords(obs.words[i][1], obs.words[i][2])]
    /\ CountSite(obs.hist, "poll") + (IF call.site = "poll" THEN 1 ELSE 0) = obs.polled
    /\ obs.cycles = obs.polled + obs.readFails + (IF pc = "read" THEN 1 ELSE 0)
    /\ \A i \in 1 .. Len(obs.hist) : obs.hist[i][1] # "poll" => obs.hist[i][2] = Zeros
    /\ obs.fault = "read" =>
          /\ pc # "read" /\ io = NoIo
          /\ call.site \in {"err", "du", "none"}
          /\ obs.nreads <= 3 * obs.polled + 3 * (obs.readFails - 1) + Len(obs.reads)

\* after a cycle that failed at its second read, the next cycle has read (200.0,
\* 240.0, 59.98) and its update is about to store the watts
C13_Witness ==
    /\ pc = "u_watts" /\ call.site = "poll"
    /\ obs.readFails = 1 /\ obs.nreads = 5
    /\ obs.words = <<<<17224, 0>>, <<17264, 0>>, <<17007, 60293>>>>
    /\ call.args[3] = F32FromWords(17007, 60293)

\* the task is suspended in an await, or is writing the snapshot to stdout
Suspended == pc \in {"connect", "read", "tick", "sleep", "v_write"}

\* C14 as stated: whenever the acquisition task waits on the connect, a register
\* read, the pacing tick or the backoff sleep, or writes the verbose snapshot to
\* stdout, the mutex is free.
C14_MutexFreeWhileSuspended ==
    Suspended => mutex = Unlocked

\* C14, amended: in these states the acquisition task does not hold the mutex (a
\* /power request may be holding it for its copy).
C14_LoopHoldsNoLockWhileSuspended ==
    Suspended => mutex # HeldByLoop

\* the task writes its snapshot to stdout while a /power request holds the mutex
C14_Witness ==
    /\ pc = "v_write" /\ call.site = "emit"
    /\ \E r \in Readers : mutex = HeldBy(r) /\ rd[r].pc = "c_watts"

\* a step of PowerEwma::update
UpdateStep == UpdateWatts \/ UpdateVolts \/ UpdateFrequency \/ UpdateFlag

\* a step of a snapshot read: the /power handler or the verbose emit
SnapshotStep ==
    \/ \E r \in Readers : Request(r) \/ ReaderLock(r) \/ ReaderCopy(r) \/ ReaderReturn(r)
                            \/ Deliver(r)
    \/ VerboseLock \/ VerboseClone \/ VerboseWriteOk

\* C15: the shared reading changes only in a step of update made by the acquisition
\* task, which holds the mutex; a snapshot read, by the /power handler or by the
\* verbose emit, leaves the four fields as they are, so two snapshots with no update
\* between them are equal.
C15_SingleWriter ==
    /\ [][pe' # pe => (UpdateStep /\ mutex = HeldByLoop /\ InUpdate)]_vars
    /\ [][SnapshotStep => pe' = pe]_vars
    /\ [](\A r \in Readers :
            (rd[r].pc = "done" /\ rd[r].ref = <<obs.last>>) =>
               /\ rd[r].resp = <<obs.last>>
               /\ (pc = "v_write" /\ call.site = "emit") =>
                     call.args = <<rd[r].resp[1].watts, rd[r].resp[1].volts,
                                   rd[r].resp[1].frequency>>
               /\ \A q \in Readers :
                     (rd[q].pc = "done" /\ rd[q].ref = <<obs.last>>) => rd[q].resp = rd[r].resp)

\* the verbose emit and a /power request have both taken a snapshot of the polled
\* reading, and the reading is still what it was
C15_Witness ==
    /\ pc = "v_write" /\ call.site = "emit"
    /\ \E r \in Readers :
          /\ rd[r].pc = "done" /\ rd[r].resp[1].initialized /\ ~ChannelsZero(rd[r].resp[1])
          /\ rd[r].resp[1] = pe
          /\ call.args = <<pe.watts, pe.volts, pe.frequency>>

\* C16: on the fault path the connection is gone before the backoff sleep starts, the
\* next connect attempt comes only when the whole backoff has elapsed, and every
\* backoff is 2 seconds, however many faults came before.
C16_DropThenFixedBackoff ==
    /\ (pc = "sleep" \/ call.site = "du") => (~ctx.open /\ ~interval.armed)
    /\ pc = "sleep" =>
          /\ timer \in 0 .. 2 * TicksPerSec
          /\ obs.slept = obs.backoffs * 2 * TicksPerSec + (2 * TicksPerSec - timer)
          /\ obs.backoffs + 1 = obs.connFails + obs.readFails
    /\ pc # "sleep" => obs.slept = obs.backoffs * 2 * TicksPerSec
    /\ pc \in {"du_loop", "connect"} =>
          /\ obs.backoffs = obs.connFails + obs.readFails
          /\ ~ctx.open

\* the backoff after a read fault begins, the second backoff of the run: the
\* connection that was open is gone and the sleep has 2 seconds to go
C16_Witness ==
    /\ pc = "sleep" /\ obs.fault = "read" /\ obs.connOks >= 1
    /\ obs.backoffs = 1
    /\ timer = 2 * TicksPerSec
    /\ ctx = NoCtx

\* C17: initialized never goes back to false: once it is true it is true in every
\* later state, through successful updates, faults, reconnects and snapshot reads;
\* it is true from the first completed update on.
C17_InitializedMonotone ==
    /\ [][pe.initialized => pe'.initialized]_vars
    /\ [](Len(obs.hist) >= 1 => pe.initialized)

\* a polled reading has gone through a read fault, its two zero updates and the
\* backoff, a /power request has read it, and it is still initialized
C17_Witness ==
    /\ pc = "connect" /\ obs.polled = 1 /\ obs.readFails = 1 /\ obs.backoffs = 1
    /\ pe.initialized
    /\ \E r \in Readers : rd[r].pc = "done" /\ rd[r].resp[1] = pe

\* C18: at most one transport session to the meter is open at a time; a register
\* read is outstanding only on the open session, with its unit id set to 1; a
\* connect attempt is made only when the session before it has been dropped.
C18_OneSession ==
    /\ obs.sessions \in {0, 1}
    /\ obs.sessions = (IF ctx.open THEN 1 ELSE 0)
    /\ (pc = "read" \/ io.loc # 0) => (ctx.open /\ ctx.slave = 1 /\ obs.sessions = 1)
    /\ pc \in {"du_loop", "connect"} => (obs.sessions = 0 /\ ~ctx.open)
    /\ obs.connOks <= obs.sessions + obs.readFails + (IF pc = "panicked" THEN 1 ELSE 0)

\* a read is outstanding on the second session, opened after the first was dropped on
\* a read fault
C18_Witness ==
    /\ pc = "read" /\ io.loc = REG_VOLTS
    /\ obs.connOks = 2 /\ obs.readFails = 1
    /\ ctx = [open |-> TRUE, slave |-> 1]
    /\ obs.sessions = 1

====
